---- MODULE Spec2Model ----
(***************************************************************************)
(* Model of the BigQuery-emulator example scripts:                         *)
(*   - the request-transport override createCustomAuthRequest /            *)
(*     makeAuthenticatedRequest (two copies: override-auth-example         *)
(*     index and test), one invocation at a time on a descriptor object;   *)
(*   - the top level and the main / testConnection / testEmulator          *)
(*     functions of the six scripts, run against an SDK whose calls        *)
(*     succeed or fail nondeterministically.                               *)
(* Strings the code matches on (URIs) are sequences of tokens; JavaScript  *)
(* values are records tagged by a field t.                                 *)
(***************************************************************************)
EXTENDS Naturals, Sequences, FiniteSets, TLC

VARIABLES
    \* ---- adapter (createCustomAuthRequest) ----
    variant,        \* which copy of the adapter: "index" or "test"; "none" in a script run
    emulatorHost,   \* the base URL captured at construction (token sequence)
    reqOpts,        \* the descriptor object: uri, callback (mutated by the adapter)
    pass,           \* how many times the descriptor has been passed to the adapter
    origUri,        \* history: the uri the descriptor held when the current invocation began
    apc,            \* position of the current invocation
    response,       \* the Response object fetch resolved with (or NoResponse)
    failure,        \* history: the error fetch or response.text() rejected with (or Undefined)
    dispatched,     \* history: URIs handed to the HTTP client by the current invocation
    cbLog,          \* history: argument lists of the callback invocations of the current invocation
    promise,        \* the promise returned by the current invocation
    fetchOptions,   \* history: the options handed to the HTTP client with the uri
    frames,         \* the invocations in flight at once through one adapter: their locals
    \* ---- scripts ----
    script,         \* which script runs; "none" in an adapter run
    spc,            \* position of the script
    env,            \* process.env
    dotenvFile,     \* the contents of .env
    EMULATOR_HOST,  \* the module constant EMULATOR_HOST of the override scripts
    clients,        \* history: process.env as each BigQuery client was constructed
    outstanding,    \* the SDK call awaiting its result (or NoOp)
    issued,         \* history: SDK calls issued, in order
    errors,         \* history: errors thrown by SDK calls or by the script
    recovered,      \* history: errors caught and treated as success
    step,           \* index in Calls(script) of the SDK call at hand
    rows,           \* what the last getQueryResults resolved with
    console,        \* history: console lines that matter to the claims
    exitCode        \* process exit code, NoExit while running

adapterVars == <<variant, emulatorHost, reqOpts, pass, origUri, apc, response, failure,
                 dispatched, cbLog, promise>>
scriptVars == <<script, spc, env, dotenvFile, EMULATOR_HOST, clients, outstanding,
                issued, errors, recovered, step, rows, console, exitCode>>
moreVars == <<fetchOptions, frames>>
vars == <<variant, emulatorHost, reqOpts, pass, origUri, apc, response, failure,
          dispatched, cbLog, promise, fetchOptions, frames,
          script, spc, env, dotenvFile, EMULATOR_HOST, clients, outstanding,
          issued, errors, recovered, step, rows, console, exitCode>>

(***************************************************************************)
(* Bounds                                                                  *)
(***************************************************************************)
\* how many times one descriptor object is passed to the adapter
MaxPasses == 2
\* largest row count a query result carries
MaxRows == 1

(***************************************************************************)
(* JavaScript values                                                       *)
(***************************************************************************)
Null == [t |-> "null"]
Undefined == [t |-> "undefined"]
Str(s) == [t |-> "string", v |-> s]
Num(n) == [t |-> "number", n |-> n]
Array(len) == [t |-> "array", length |-> len]
Obj(o) == [t |-> "object", v |-> o]

(***************************************************************************)
(* URI strings as token sequences.  No token contains another token of the *)
(* alphabet that the code searches for, so a search over tokens finds what *)
(* the search over characters finds.                                       *)
(***************************************************************************)
Https == "https://"
Http == "http://"
Slash == "/"
Googleapis == ".googleapis.com"
\* tokens that contain the character '/'
HasSlash(tok) == tok \in {Https, Http, Slash}

StartsWith(s, p) ==
    /\ Len(s) >= Len(p)
    /\ SubSeq(s, 1, Len(p)) = p

\* String.prototype.replace(string, string): the first occurrence of one token
ReplaceFirst(s, tok, by) ==
    IF \E i \in 1..Len(s) : s[i] = tok
    THEN LET i == CHOOSE j \in 1..Len(s) :
                      /\ s[j] = tok
                      /\ \A l \in 1..(j-1) : s[l] # tok
         IN  SubSeq(s, 1, i-1) \o <<by>> \o SubSeq(s, i+1, Len(s))
    ELSE s

\* scheme:\/\/[^\/]+\.googleapis\.com matched at token i and ending at token k
RegexMatchAt(s, scheme, i, k) ==
    /\ i \in 1..Len(s)
    /\ k \in (i+2)..Len(s)
    /\ s[i] = scheme
    /\ s[k] = Googleapis
    /\ \A l \in (i+1)..(k-1) : ~HasSlash(s[l])

RegexMatches(s, scheme) ==
    \E i \in 1..Len(s) : \E k \in 1..Len(s) : RegexMatchAt(s, scheme, i, k)

\* String.prototype.replace(regex, string) without the g flag: the leftmost
\* match, [^\/]+ greedy
RegexReplace(s, scheme, by) ==
    IF RegexMatches(s, scheme)
    THEN LET i == CHOOSE j \in 1..Len(s) :
                      /\ \E k \in 1..Len(s) : RegexMatchAt(s, scheme, j, k)
                      /\ \A l \in 1..(j-1) :
                            ~ \E k \in 1..Len(s) : RegexMatchAt(s, scheme, l, k)
             e == CHOOSE k \in 1..Len(s) :
                      /\ RegexMatchAt(s, scheme, i, k)
                      /\ \A l \in (k+1)..Len(s) : ~RegexMatchAt(s, scheme, i, l)
         IN  SubSeq(s, 1, i-1) \o by \o SubSeq(s, e+1, Len(s))
    ELSE s

\* the startsWith test with the localhost alternative left out
IsLocalHttpsWithoutLocalhost(uri) ==
    StartsWith(uri, <<Https, "127.0.0.1">>)

\* the startsWith test of the scheme downgrade
IsLocalHttps(uri) ==
    \/ StartsWith(uri, <<Https, "127.0.0.1">>)
    \/ StartsWith(uri, <<Https, "localhost">>)

\* the URI rewrite: both replaces, then the scheme downgrade
RewriteUri(uri, host) ==
    LET replaced == RegexReplace(RegexReplace(uri, Https, host), Http, host)
    IN  IF IsLocalHttps(replaced)
        THEN ReplaceFirst(replaced, Https, Http)
        ELSE replaced

(***************************************************************************)
(* Inputs of the adapter                                                   *)
(***************************************************************************)
\* base URLs a caller configures (EMULATOR_HOST): the default, its https
\* spelling, localhost, and an emulator on another machine
EmulatorHosts ==
    { <<Http, "127.0.0.1", ":9050">>,
      <<Https, "127.0.0.1", ":9050">>,
      <<Https, "localhost", ":9050">>,
      <<Http, "bq-emulator", ":9050">>,
      <<Https, "bq-emulator", ":9050">> }

UriSchemes == {Https, Http}
\* authorities: a cloud-API host, loopback hosts, hosts whose name begins
\* with a loopback spelling, a cloud-API name inside another host, another host
UriAuthorities ==
    { <<"bigquery", Googleapis>>,
      <<"127.0.0.1", ":9050">>,
      <<"localhost">>,
      <<"127.0.0.1", "0">>,
      <<"localhost", ".example.com">>,
      <<"bigquery", Googleapis, ".example.com">>,
      <<"example.com">> }
\* path and query: none, a plain path, and a query that carries a cloud-API URL
UriTails ==
    { <<>>,
      <<Slash, "bigquery", Slash, "v2", "?", "maxResults=1">>,
      <<Slash, "upload", "?", "source=", Https, "storage", Googleapis, Slash, "o">>,
      <<Slash, "upload", "?", "source=", Http, "storage", Googleapis, Slash, "o">> }

\* reqOpts.uri undefined (or empty): the falsy case of if (reqOpts.uri)
NoUri == << >>
Uris == { <<s>> \o a \o p : s \in UriSchemes, a \in UriAuthorities, p \in UriTails }

\* reqOpts.callback: absent, a function that returns, a function that throws
Callbacks == {"none", "returns", "throws"}
Descriptors == [uri : Uris \cup {NoUri}, callback : Callbacks]
NoDescriptor == [uri |-> NoUri, callback |-> "none"]

(***************************************************************************)
(* HTTP responses and errors                                               *)
(***************************************************************************)
JsonObjectText == "{\"kind\":\"bigquery#dataset\"}"
JsonNullText == "null"
HtmlText == "<html>Bad Gateway</html>"
EmptyText == ""

JsonHeaders == << <<"content-type", "application/json">>, <<"vary", "Origin">> >>
HtmlHeaders == << <<"content-type", "text/html">> >>
NoHeaders == << >>

Responses ==
    { [status |-> 200, text |-> JsonObjectText, headers |-> JsonHeaders],
      [status |-> 200, text |-> JsonNullText, headers |-> JsonHeaders],
      [status |-> 200, text |-> HtmlText, headers |-> HtmlHeaders],
      [status |-> 204, text |-> EmptyText, headers |-> NoHeaders],
      [status |-> 409, text |-> JsonObjectText, headers |-> JsonHeaders],
      [status |-> 502, text |-> HtmlText, headers |-> HtmlHeaders] }
NoResponse == [status |-> 0, text |-> EmptyText, headers |-> NoHeaders]

\* Response.ok
Ok(r) == r.status >= 200 /\ r.status <= 299

\* JSON.parse: the value, or a SyntaxError
ParseJSON(text) ==
    CASE text = JsonObjectText -> [threw |-> FALSE, value |-> Obj("kind=bigquery#dataset")]
      [] text = JsonNullText -> [threw |-> FALSE, value |-> Null]
      [] OTHER -> [threw |-> TRUE, value |-> Undefined]

\* Object.fromEntries: the map from each key to its value
FromEntries(entries) ==
    [k \in {entries[i][1] : i \in 1..Len(entries)} |->
        LET i == CHOOSE j \in 1..Len(entries) :
                    /\ entries[j][1] = k
                    /\ \A l \in (j+1)..Len(entries) : entries[l][1] # k
        IN  entries[i][2]]

Error(name, message, status, resp) ==
    [t |-> "error", name |-> name, message |-> <<message, status>>, response |-> resp]
\* fetch rejecting: connection refused, timeout, premature close
NetworkError == Error("FetchError", "request failed, reason: connect ECONNREFUSED", 0, Undefined)
\* fetch of an undefined uri
InvalidUrlError == Error("TypeError", "Only absolute URLs are supported", 0, Undefined)
\* what a throwing callback throws
CallbackError == Error("Error", "thrown by the callback", 0, Undefined)

(***************************************************************************)
(* makeAuthenticatedRequest: what each continuation computes               *)
(***************************************************************************)
Pending == [state |-> "pending", value |-> Undefined]
Fulfilled(v) == [state |-> "fulfilled", value |-> v]
Rejected(e) == [state |-> "rejected", value |-> e]

\* responseBody left undefined when JSON.parse throws
ResponseBodyDropsRawText(text) ==
    IF ParseJSON(text).threw THEN Undefined ELSE ParseJSON(text).value

\* responseBody: the parsed body, the raw text when JSON.parse throws
ResponseBody(text) ==
    IF ParseJSON(text).threw THEN Str(text) ELSE ParseJSON(text).value

\* result: the record the SDK expects from its transport
Result(r) ==
    [statusCode |-> r.status, body |-> ResponseBody(r.text), headers |-> FromEntries(r.headers)]

\* the error built for a response that is not ok
StatusError(res) == Error("Error", "Request failed with status", res.statusCode, res)

\* the callback given the error alone for a response that is not ok
CallbackArgsErrorAlone(r) ==
    IF Ok(r)
    THEN <<Null, ResponseBody(r.text), Result(r)>>
    ELSE <<StatusError(Result(r))>>

\* the arguments of the callback for a response
CallbackArgs(r) ==
    IF Ok(r)
    THEN <<Null, ResponseBody(r.text), Result(r)>>
    ELSE <<StatusError(Result(r)), Null, Result(r)>>

\* the catch block of the index copy: log, callback(err), throw err.
\* calls: the callback invocations made before the block was entered
CatchBlock(opts, err, calls) ==
    CASE opts.callback = "none" -> [calls |-> calls, promise |-> Rejected(err)]
      [] opts.callback = "returns" -> [calls |-> Append(calls, <<err>>), promise |-> Rejected(err)]
      [] opts.callback = "throws" -> [calls |-> Append(calls, <<err>>), promise |-> Rejected(CallbackError)]

\* fetch or response.text() rejected with err
OnFailure(v, opts, err) ==
    IF v = "index"
    THEN CatchBlock(opts, err, << >>)
    ELSE [calls |-> << >>, promise |-> Rejected(err)]

\* a response that is not ok also thrown after the callback was told
OnBodyThrowsStatusError(v, opts, r) ==
    CASE opts.callback = "none" -> [calls |-> << >>, promise |-> Fulfilled(Result(r))]
      [] opts.callback = "returns" ->
            [calls |-> <<CallbackArgs(r)>>,
             promise |-> IF Ok(r) THEN Fulfilled(Result(r))
                         ELSE Rejected(StatusError(Result(r)))]
      [] opts.callback = "throws" ->
            IF v = "index"
            THEN CatchBlock(opts, CallbackError, <<CallbackArgs(r)>>)
            ELSE [calls |-> <<CallbackArgs(r)>>, promise |-> Rejected(CallbackError)]

\* response.text() resolved: parse, normalize, call back, return
OnBody(v, opts, r) ==
    CASE opts.callback = "none" -> [calls |-> << >>, promise |-> Fulfilled(Result(r))]
      [] opts.callback = "returns" -> [calls |-> <<CallbackArgs(r)>>, promise |-> Fulfilled(Result(r))]
      [] opts.callback = "throws" ->
            IF v = "index"
            THEN CatchBlock(opts, CallbackError, <<CallbackArgs(r)>>)
            ELSE [calls |-> <<CallbackArgs(r)>>, promise |-> Rejected(CallbackError)]

(***************************************************************************)
(* makeAuthenticatedRequest: the options handed to fetch                   *)
(***************************************************************************)
\* reading a property of an object: undefined when the object has none
Get(o, k) == IF k \in DOMAIN o THEN o[k] ELSE Undefined

\* the values that count as false in a condition and in ||
Falsy(v) ==
    \/ v.t \in {"undefined", "null"}
    \/ v.t = "string" /\ v.v = ""
    \/ v.t = "number" /\ v.n = 0

\* JSON.stringify: the text, as tokens
JSONStringify(v) ==
    CASE v.t = "object" -> <<"{", v.v, "}">>
      [] v.t = "string" -> <<"\"", v.v, "\"">>
      [] v.t = "number" -> <<v.n>>
      [] v.t = "null" -> <<"null">>

ContentType == "Content-Type"
DefaultHeaders == [k \in {ContentType} |-> "application/json"]

\* { ...a, ...b }: the keys of both, b's value where both have the key;
\* spreading undefined adds nothing
Spread(a, b) ==
    IF b.t = "object"
    THEN [k \in DOMAIN a \cup DOMAIN b.v |-> IF k \in DOMAIN b.v THEN b.v[k] ELSE a[k]]
    ELSE a

\* fetchOptions: method, headers, and a body when reqOpts.body is truthy
FetchOptions(opts) ==
    [method |-> IF Falsy(Get(opts, "method")) THEN "GET" ELSE Get(opts, "method").v,
     headers |-> Spread(DefaultHeaders, Get(opts, "headers")),
     body |-> IF Falsy(Get(opts, "body")) THEN Undefined
              ELSE Str(JSONStringify(Get(opts, "body")))]

(***************************************************************************)
(* Adapter actions                                                         *)
(***************************************************************************)
\* the synchronous part of makeAuthenticatedRequest(opts): rewrite the uri in
\* the descriptor, build the fetch options, call fetch
Begin(opts) ==
    LET uri == IF opts.uri # NoUri THEN RewriteUri(opts.uri, emulatorHost) ELSE opts.uri
    IN  /\ origUri' = opts.uri
        /\ reqOpts' = [opts EXCEPT !.uri = uri]
        /\ dispatched' = IF uri # NoUri THEN <<uri>> ELSE << >>
        /\ fetchOptions' = FetchOptions(opts)
        /\ response' = NoResponse
        /\ failure' = Undefined
        /\ cbLog' = << >>
        /\ promise' = Pending
        /\ pass' = pass + 1
        /\ apc' = "awaitFetch"
        /\ UNCHANGED <<variant, emulatorHost>>

\* the SDK calls the adapter with a new descriptor
Invoke(opts) ==
    /\ apc = "ready"
    /\ pass = 0
    /\ Begin(opts)
    /\ UNCHANGED <<scriptVars, frames>>

\* the caller passes the same descriptor object again
InvokeAgain ==
    /\ apc = "settled"
    /\ pass < MaxPasses
    /\ Begin(reqOpts)
    /\ UNCHANGED <<scriptVars, frames>>

Settle(outcome) ==
    /\ cbLog' = outcome.calls
    /\ promise' = outcome.promise
    /\ apc' = "settled"

\* fetch resolves with a Response; the code awaits response.text()
FetchResolves(r) ==
    /\ apc = "awaitFetch"
    /\ dispatched # << >>
    /\ response' = r
    /\ apc' = "awaitText"
    /\ UNCHANGED <<variant, emulatorHost, reqOpts, pass, origUri, failure, dispatched,
                   cbLog, promise>>
    /\ UNCHANGED <<scriptVars, moreVars>>

\* fetch rejects: the network failed, or there was no uri to fetch
FetchRejects ==
    /\ apc = "awaitFetch"
    /\ failure' = IF dispatched = << >> THEN InvalidUrlError ELSE NetworkError
    /\ Settle(OnFailure(variant, reqOpts, failure'))
    /\ UNCHANGED <<variant, emulatorHost, reqOpts, pass, origUri, dispatched, response>>
    /\ UNCHANGED <<scriptVars, moreVars>>

\* response.text() resolves with the body text
TextResolves ==
    /\ apc = "awaitText"
    /\ failure' = Undefined
    /\ Settle(OnBody(variant, reqOpts, response))
    /\ UNCHANGED <<variant, emulatorHost, reqOpts, pass, origUri, dispatched, response>>
    /\ UNCHANGED <<scriptVars, moreVars>>

\* response.text() rejects: the connection broke while the body was read
TextRejects ==
    /\ apc = "awaitText"
    /\ failure' = NetworkError
    /\ Settle(OnFailure(variant, reqOpts, failure'))
    /\ UNCHANGED <<variant, emulatorHost, reqOpts, pass, origUri, dispatched, response>>
    /\ UNCHANGED <<scriptVars, moreVars>>

AdapterNext ==
    \/ \E opts \in Descriptors : Invoke(opts)
    \/ InvokeAgain
    \/ \E r \in Responses : FetchResolves(r)
    \/ FetchRejects
    \/ TextResolves
    \/ TextRejects

(***************************************************************************)
(* The scripts                                                             *)
(***************************************************************************)
EnvIndex == "env-variable-example/index.ts"
EnvTest == "env-variable-example/test.ts"
OverrideIndex == "override-auth-example/index.ts"
SimpleIndex == "override-auth-example/simple-index.ts"
OverrideTest == "override-auth-example/test.ts"
Minimal == "minimal test (testEmulator)"
Scripts == {EnvIndex, EnvTest, OverrideIndex, SimpleIndex, OverrideTest, Minimal}
FullExamples == {EnvIndex, OverrideIndex, SimpleIndex}
ConnectionTests == {EnvTest, OverrideTest}

GOOGLE_APPLICATION_CREDENTIALS == "GOOGLE_APPLICATION_CREDENTIALS"
GOOGLE_CLOUD_PROJECT == "GOOGLE_CLOUD_PROJECT"
GCLOUD_PROJECT == "GCLOUD_PROJECT"
BIGQUERY_EMULATOR_HOST == "BIGQUERY_EMULATOR_HOST"
EMULATOR_HOST_VAR == "EMULATOR_HOST"
CredentialVars == {GOOGLE_APPLICATION_CREDENTIALS, GOOGLE_CLOUD_PROJECT, GCLOUD_PROJECT}

DefaultHost == "http://127.0.0.1:9050"
MinimalHost == "http://localhost:9050"

\* an environment is a map from the names that are set to their values
EmptyEnv == [v \in {} |-> ""]
Merge(a, b) == [v \in DOMAIN a \cup DOMAIN b |-> IF v \in DOMAIN a THEN a[v] ELSE b[v]]
Bind(name, value) == [v \in {name} |-> value]

\* process.env[name] || fallback: unset and the empty string are falsy
OrDefault(e, name, fallback) ==
    IF name \in DOMAIN e /\ e[name] # "" THEN e[name] ELSE fallback

\* the environments a caller starts a script in, and the .env files beside it
ShellCredentials ==
    { EmptyEnv,
      Bind(GOOGLE_APPLICATION_CREDENTIALS, "/home/me/key.json"),
      Merge(Bind(GOOGLE_APPLICATION_CREDENTIALS, "/home/me/key.json"),
            Merge(Bind(GOOGLE_CLOUD_PROJECT, "prod"), Bind(GCLOUD_PROJECT, "prod"))) }
ShellHosts ==
    { EmptyEnv,
      Merge(Bind(BIGQUERY_EMULATOR_HOST, "http://emulator:9050"),
            Bind(EMULATOR_HOST_VAR, "http://emulator:9050")),
      Merge(Bind(BIGQUERY_EMULATOR_HOST, ""), Bind(EMULATOR_HOST_VAR, "")) }
ShellEnvs == { Merge(c, h) : c \in ShellCredentials, h \in ShellHosts }
DotenvFiles ==
    { EmptyEnv,
      Merge(Bind(GOOGLE_APPLICATION_CREDENTIALS, "./key.json"),
            Bind(GOOGLE_CLOUD_PROJECT, "staging")),
      Merge(Bind(BIGQUERY_EMULATOR_HOST, "http://localhost:9050"),
            Bind(EMULATOR_HOST_VAR, "https://localhost:9050")) }

\* dotenv.config(): every name of .env that process.env does not hold is set
DotenvConfig(e, file) == Merge(e, file)

\* delete process.env.X for the three credential variables
DeleteCredentials(e) == [v \in DOMAIN e \ CredentialVars |-> e[v]]

\* the top-level statements (or, in the minimal test, the first statements
\* of testEmulator) that clear the credential variables
ClearsCredentials(sc) == sc \in {EnvIndex, EnvTest, SimpleIndex, Minimal}
CallsDotenv(sc) == sc # Minimal

\* every script setting the default whatever the environment holds
HostStatementOverwrites(sc, e) ==
    CASE sc \in {EnvIndex, EnvTest} ->
            [env |-> Merge(Bind(BIGQUERY_EMULATOR_HOST, DefaultHost), e), const |-> ""]
      [] sc = SimpleIndex ->
            [env |-> Merge(Bind(BIGQUERY_EMULATOR_HOST,
                                OrDefault(e, EMULATOR_HOST_VAR, DefaultHost)), e),
             const |-> OrDefault(e, EMULATOR_HOST_VAR, DefaultHost)]
      [] sc \in {OverrideIndex, OverrideTest} ->
            [env |-> e, const |-> OrDefault(e, EMULATOR_HOST_VAR, DefaultHost)]
      [] sc = Minimal ->
            [env |-> Merge(Bind(BIGQUERY_EMULATOR_HOST, MinimalHost), e), const |-> ""]

\* the statements that read or set the emulator host
HostStatement(sc, e) ==
    CASE sc \in {EnvIndex, EnvTest} ->
            [env |-> Merge(Bind(BIGQUERY_EMULATOR_HOST,
                                OrDefault(e, BIGQUERY_EMULATOR_HOST, DefaultHost)), e),
             const |-> ""]
      [] sc = SimpleIndex ->
            [env |-> Merge(Bind(BIGQUERY_EMULATOR_HOST,
                                OrDefault(e, EMULATOR_HOST_VAR, DefaultHost)), e),
             const |-> OrDefault(e, EMULATOR_HOST_VAR, DefaultHost)]
      [] sc \in {OverrideIndex, OverrideTest} ->
            [env |-> e, const |-> OrDefault(e, EMULATOR_HOST_VAR, DefaultHost)]
      [] sc = Minimal ->
            [env |-> Merge(Bind(BIGQUERY_EMULATOR_HOST, MinimalHost), e), const |-> ""]

\* the SDK calls of each script, in program order
Calls(sc) ==
    CASE sc \in {EnvIndex, OverrideIndex} ->
            <<"createDataset", "createTable", "insert", "createQueryJob", "getQueryResults",
              "createQueryJob", "getQueryResults">>
      [] sc = SimpleIndex ->
            <<"createDataset", "createTable", "insert", "createQueryJob", "getQueryResults">>
      [] sc \in ConnectionTests -> <<"createQueryJob", "getQueryResults">>
      [] sc = Minimal ->
            <<"createQueryJob", "getQueryResults", "createQueryJob", "getQueryResults">>

\* the errors an SDK call rejects with: code and message (words)
SdkError(code, message) == [code |-> code, message |-> message]
SdkErrors ==
    { SdkError(Num(409), <<"Already", "Exists:", "Dataset", "test-project:test_dataset">>),
      SdkError(Num(409), <<"dataset", "test_dataset", "is", "already", "created">>),
      SdkError(Num(500), <<"internalError:", "resource", "is", "already", "created">>),
      SdkError(Num(400), <<"Syntax", "error:", "Unexpected", "identifier">>),
      SdkError(Str("ECONNREFUSED"), <<"connect", "ECONNREFUSED", "127.0.0.1:9050">>) }
\* errors the scripts themselves throw
NoResultsError == SdkError(Undefined, <<"No", "results", "returned", "from", "test", "query">>)
TypeError == SdkError(Undefined, <<"Cannot", "read", "properties", "of", "undefined">>)

\* String.prototype.includes, for a word
Includes(message, word) == \E i \in 1..Len(message) : message[i] = word

\* err.code === 409
IsConflict(err) == err.code.t = "number" /\ err.code.n = 409

\* every script testing the message as the simplified one does
RecoversByMessageEverywhere(sc, err) ==
    IsConflict(err) \/ Includes(err.message, "already")

\* the test of the handlers around createDataset and createTable
Recovers(sc, err) ==
    IF sc = SimpleIndex
    THEN IsConflict(err) \/ Includes(err.message, "already")
    ELSE IsConflict(err)

\* where a script goes after each of its opening statements
FirstPhase(sc) == IF CallsDotenv(sc) THEN "dotenv" ELSE "clear"
AfterDotenv(sc) == IF ClearsCredentials(sc) THEN "clear" ELSE "host"

NoCall == "none"
CallAt(sc, i) == Calls(sc)[i]

\* what the code after an await does with the value the call resolved with:
\* go on to the next call, finish, or throw
GoOn == [kind |-> "next", err |-> Undefined]
Finish == [kind |-> "finish", err |-> Undefined]
Throw(e) == [kind |-> "throw", err |-> e]
\* a query that returned an empty row set counted as a success
HasRowsOrNone(r) == r.t = "array"

HasRows(r) == r.t = "array" /\ r.length > 0

OnResolved(sc, i, r) ==
    CASE sc \in {EnvIndex, OverrideIndex} ->
            IF i = 5 THEN (IF r.t = "array" THEN GoOn ELSE Throw(TypeError))
            ELSE IF i = 7 THEN (IF HasRows(r) THEN Finish ELSE Throw(TypeError))
            ELSE GoOn
      [] sc = SimpleIndex ->
            IF i = 5 THEN (IF r.t = "array" THEN Finish ELSE Throw(TypeError))
            ELSE GoOn
      [] sc \in ConnectionTests ->
            IF i = 2 THEN (IF HasRows(r) THEN Finish ELSE Throw(NoResultsError))
            ELSE GoOn
      [] sc = Minimal ->
            IF i = 4 THEN Finish ELSE GoOn

\* what the handlers do with the error a call rejected with: treat it as
\* success and go on, skip to the next attempt, finish, or exit
Recover == [kind |-> "recover", code |-> 0]
SkipAttempt == [kind |-> "skip", code |-> 0]
GiveUp == [kind |-> "finish", code |-> 0]
Exit(code) == [kind |-> "exit", code |-> code]

\* the connection tests leaving their catch block without process.exit(1)
OnRejectedWithoutExit(sc, i, err) ==
    CASE sc \in FullExamples ->
            IF i \in {1, 2} /\ Recovers(sc, err) THEN Recover ELSE Exit(1)
      [] sc \in ConnectionTests -> GiveUp
      [] sc = Minimal ->
            IF i \in {1, 2} THEN SkipAttempt ELSE GiveUp

\* the minimal test running its second attempt again when it fails
OnRejectedRetries(sc, i, err) ==
    CASE sc \in FullExamples ->
            IF i \in {1, 2} /\ Recovers(sc, err) THEN Recover ELSE Exit(1)
      [] sc \in ConnectionTests -> Exit(1)
      [] sc = Minimal -> SkipAttempt

\* the full examples going on after insert failed
OnRejectedGoesOnAfterInsert(sc, i, err) ==
    CASE sc \in FullExamples ->
            IF i \in {1, 2} /\ Recovers(sc, err) THEN Recover
            ELSE IF i = 3 THEN Recover ELSE Exit(1)
      [] sc \in ConnectionTests -> Exit(1)
      [] sc = Minimal ->
            IF i \in {1, 2} THEN SkipAttempt ELSE GiveUp

OnRejected(sc, i, err) ==
    CASE sc \in FullExamples ->
            IF i \in {1, 2} /\ Recovers(sc, err) THEN Recover ELSE Exit(1)
      [] sc \in ConnectionTests -> Exit(1)
      [] sc = Minimal ->
            IF i \in {1, 2} THEN SkipAttempt ELSE GiveUp

\* the outer catch block, for an error the script itself threw
OnThrown(sc) == Exit(1)

\* console lines
SuccessLine(sc) ==
    CASE sc \in FullExamples -> "Successfully connected to BigQuery emulator"
      [] sc \in ConnectionTests -> "Connection successful!"
      [] sc = Minimal -> "Success with custom auth client!"
FailureLines(sc) ==
    CASE sc \in FullExamples -> <<"Error:", "Stack:">>
      [] sc \in ConnectionTests -> <<"Connection failed!", "Error:", "Troubleshooting tips:">>
      [] sc = Minimal -> <<"Failed", "Error:">>

(***************************************************************************)
(* Script actions                                                          *)
(***************************************************************************)
LoadDotenv ==
    /\ spc = "dotenv"
    /\ env' = DotenvConfig(env, dotenvFile)
    /\ spc' = AfterDotenv(script)
    /\ UNCHANGED <<script, dotenvFile, EMULATOR_HOST, clients, outstanding, issued,
                   errors, recovered, step, rows, console, exitCode>>
    /\ UNCHANGED <<adapterVars, moreVars>>

ClearCredentials ==
    /\ spc = "clear"
    /\ env' = DeleteCredentials(env)
    /\ spc' = "host"
    /\ UNCHANGED <<script, dotenvFile, EMULATOR_HOST, clients, outstanding, issued,
                   errors, recovered, step, rows, console, exitCode>>
    /\ UNCHANGED <<adapterVars, moreVars>>

ConfigureHost ==
    /\ spc = "host"
    /\ env' = HostStatement(script, env).env
    /\ EMULATOR_HOST' = HostStatement(script, env).const
    /\ spc' = "construct"
    /\ UNCHANGED <<script, dotenvFile, clients, outstanding, issued,
                   errors, recovered, step, rows, console, exitCode>>
    /\ UNCHANGED <<adapterVars, moreVars>>

\* new BigQuery(...)
ConstructClient ==
    /\ spc = "construct"
    /\ clients' = Append(clients, env)
    /\ spc' = "issue"
    /\ UNCHANGED <<script, env, dotenvFile, EMULATOR_HOST, outstanding, issued,
                   errors, recovered, step, rows, console, exitCode>>
    /\ UNCHANGED <<adapterVars, moreVars>>

\* the script calls the SDK and awaits the result
IssueCall ==
    /\ spc = "issue"
    /\ outstanding' = CallAt(script, step)
    /\ issued' = Append(issued, [step |-> step, call |-> CallAt(script, step)])
    /\ spc' = "await"
    /\ UNCHANGED <<script, env, dotenvFile, EMULATOR_HOST, clients,
                   errors, recovered, step, rows, console, exitCode>>
    /\ UNCHANGED <<adapterVars, moreVars>>

\* the process ends: process.exit(code), or nothing left to run (code 0)
Ends(code, lines) ==
    /\ spc' = "exited"
    /\ exitCode' = code
    /\ console' = console \o lines

\* the next call of the script; the minimal test constructs its second
\* client between the two attempts
Advance(to) ==
    /\ step' = to
    /\ spc' = IF script = Minimal /\ to = 3 THEN "construct" ELSE "issue"

\* the awaited call resolves with r
SdkResolves(r) ==
    /\ spc = "await"
    /\ IF outstanding = "getQueryResults"
       THEN r \in {Undefined} \cup {Array(n) : n \in 0..MaxRows}
       ELSE r = Undefined
    /\ rows' = IF outstanding = "getQueryResults" THEN r ELSE rows
    /\ outstanding' = NoCall
    /\ LET c == OnResolved(script, step, r)
       IN  CASE c.kind = "next" ->
                    /\ Advance(step + 1)
                    /\ UNCHANGED <<errors, console, exitCode>>
             [] c.kind = "finish" ->
                    /\ Ends(0, <<SuccessLine(script)>>)
                    /\ UNCHANGED <<errors, step>>
             [] c.kind = "throw" ->
                    /\ errors' = Append(errors, [step |-> step, err |-> c.err])
                    /\ Ends(OnThrown(script).code, FailureLines(script))
                    /\ UNCHANGED step
    /\ UNCHANGED <<script, env, dotenvFile, EMULATOR_HOST, clients, issued, recovered>>
    /\ UNCHANGED <<adapterVars, moreVars>>

\* the awaited call rejects with err
SdkRejects(err) ==
    /\ spc = "await"
    /\ outstanding' = NoCall
    /\ errors' = Append(errors, [step |-> step, err |-> err])
    /\ LET h == OnRejected(script, step, err)
       IN  CASE h.kind = "recover" ->
                    /\ recovered' = Append(recovered, [step |-> step, err |-> err])
                    /\ console' = Append(console, "already exists")
                    /\ Advance(step + 1)
                    /\ UNCHANGED exitCode
             [] h.kind = "skip" ->
                    /\ console' = console \o FailureLines(script)
                    /\ Advance(3)
                    /\ UNCHANGED <<recovered, exitCode>>
             [] h.kind = "finish" ->
                    /\ Ends(h.code, FailureLines(script))
                    /\ UNCHANGED <<recovered, step>>
             [] h.kind = "exit" ->
                    /\ Ends(h.code, FailureLines(script))
                    /\ UNCHANGED <<recovered, step>>
    /\ UNCHANGED <<script, env, dotenvFile, EMULATOR_HOST, clients, issued, rows>>
    /\ UNCHANGED <<adapterVars, moreVars>>

ScriptNext ==
    \/ LoadDotenv
    \/ ClearCredentials
    \/ ConfigureHost
    \/ ConstructClient
    \/ IssueCall
    \/ \E r \in {Undefined} \cup {Array(n) : n \in 0..MaxRows} : SdkResolves(r)
    \/ \E err \in SdkErrors : SdkRejects(err)

(***************************************************************************)
(* Specification: a run exercises either one adapter or one script         *)
(***************************************************************************)
AdapterIdle ==
    /\ variant = "none"
    /\ emulatorHost = NoUri
    /\ reqOpts = NoDescriptor
    /\ pass = 0
    /\ origUri = NoUri
    /\ apc = "idle"
    /\ response = NoResponse
    /\ failure = Undefined
    /\ dispatched = << >>
    /\ cbLog = << >>
    /\ promise = Pending

ScriptIdle ==
    /\ script = "none"
    /\ spc = "idle"
    /\ env = EmptyEnv
    /\ dotenvFile = EmptyEnv
    /\ EMULATOR_HOST = ""
    /\ clients = << >>
    /\ outstanding = NoCall
    /\ issued = << >>
    /\ errors = << >>
    /\ recovered = << >>
    /\ step = 1
    /\ rows = Undefined
    /\ console = << >>
    /\ exitCode = 0

\* createCustomAuthRequest(emulatorHost) has returned makeAuthenticatedRequest
AdapterInit ==
    /\ variant \in {"index", "test"}
    /\ emulatorHost \in EmulatorHosts
    /\ reqOpts = NoDescriptor
    /\ pass = 0
    /\ origUri = NoUri
    /\ apc = "ready"
    /\ response = NoResponse
    /\ failure = Undefined
    /\ dispatched = << >>
    /\ cbLog = << >>
    /\ promise = Pending

\* node starts a script in some environment
ScriptInit ==
    /\ script \in Scripts
    /\ spc = FirstPhase(script)
    /\ env \in ShellEnvs
    /\ dotenvFile \in DotenvFiles
    /\ EMULATOR_HOST = ""
    /\ clients = << >>
    /\ outstanding = NoCall
    /\ issued = << >>
    /\ errors = << >>
    /\ recovered = << >>
    /\ step = 1
    /\ rows = Undefined
    /\ console = << >>
    /\ exitCode = 0

\* nothing was handed to the HTTP client yet; no second invocation in flight
NoFetchOptions == [method |-> "", headers |-> [k \in {} |-> ""], body |-> Undefined]
NoFrames == << >>
MoreIdle ==
    /\ fetchOptions = NoFetchOptions
    /\ frames = NoFrames

Init ==
    \/ AdapterInit /\ ScriptIdle /\ MoreIdle
    \/ ScriptInit /\ AdapterIdle /\ MoreIdle

Next ==
    \/ AdapterNext
    \/ ScriptNext

Spec == Init /\ [][Next]_vars

(***************************************************************************)
(* Two invocations in flight at once through one adapter instance.  Each   *)
(* invocation of the async function has its own locals (reqOpts, response, *)
(* responseText, responseBody, result) and its own descriptor object; the  *)
(* closure variable emulatorHost is the one thing they share.              *)
(***************************************************************************)
CallIds == {1, 2}

\* the descriptors and responses of the two calls: a cloud-API request with
\* a query, an https request to the loopback host, a request without uri
ConcurrentUris ==
    { <<Https, "bigquery", Googleapis, Slash, "bigquery", Slash, "v2", "?", "maxResults=1">>,
      <<Https, "localhost">>,
      NoUri }
ConcurrentDescriptors == [uri : ConcurrentUris, callback : Callbacks]
ConcurrentResponses ==
    { [status |-> 200, text |-> JsonObjectText, headers |-> JsonHeaders],
      [status |-> 200, text |-> HtmlText, headers |-> HtmlHeaders],
      [status |-> 409, text |-> JsonObjectText, headers |-> JsonHeaders] }

\* the locals of an invocation that has not begun
NoFrame ==
    [reqOpts |-> NoDescriptor, origUri |-> NoUri, pc |-> "ready", response |-> NoResponse,
     failure |-> Undefined, dispatched |-> << >>, fetchOptions |-> NoFetchOptions,
     cbLog |-> << >>, promise |-> Pending]

\* the locals of an invocation after its synchronous part: the uri rewritten
\* in its descriptor, fetch called
Called(opts, host) ==
    LET uri == IF opts.uri # NoUri THEN RewriteUri(opts.uri, host) ELSE opts.uri
    IN  [reqOpts |-> [opts EXCEPT !.uri = uri], origUri |-> opts.uri, pc |-> "awaitFetch",
         response |-> NoResponse, failure |-> Undefined,
         dispatched |-> IF uri # NoUri THEN <<uri>> ELSE << >>,
         fetchOptions |-> FetchOptions(opts),
         cbLog |-> << >>, promise |-> Pending]

\* response declared outside the async function: every invocation reads
\* the response another invocation received, when there is one
ResponseOfAnyCall(fr, c) ==
    IF \E d \in DOMAIN fr : d # c /\ fr[d].response # NoResponse
    THEN fr[CHOOSE d \in DOMAIN fr : d # c /\ fr[d].response # NoResponse].response
    ELSE fr[c].response

\* const response: the local of invocation c
ResponseOf(fr, c) == fr[c].response

Settled(f, fail, outcome) ==
    [f EXCEPT !.failure = fail, !.cbLog = outcome.calls, !.promise = outcome.promise,
              !.pc = "settled"]

CallInvoke(c, opts) ==
    /\ frames[c].pc = "ready"
    /\ frames' = [frames EXCEPT ![c] = Called(opts, emulatorHost)]
    /\ UNCHANGED <<adapterVars, scriptVars, fetchOptions>>

CallFetchResolves(c, r) ==
    /\ frames[c].pc = "awaitFetch"
    /\ frames[c].dispatched # << >>
    /\ frames' = [frames EXCEPT ![c].response = r, ![c].pc = "awaitText"]
    /\ UNCHANGED <<adapterVars, scriptVars, fetchOptions>>

CallFetchRejects(c) ==
    /\ frames[c].pc = "awaitFetch"
    /\ LET err == IF frames[c].dispatched = << >> THEN InvalidUrlError ELSE NetworkError
       IN  frames' = [frames EXCEPT
                ![c] = Settled(@, err, OnFailure(variant, frames[c].reqOpts, err))]
    /\ UNCHANGED <<adapterVars, scriptVars, fetchOptions>>

CallTextResolves(c) ==
    /\ frames[c].pc = "awaitText"
    /\ frames' = [frames EXCEPT
            ![c] = Settled(@, Undefined,
                           OnBody(variant, frames[c].reqOpts, ResponseOf(frames, c)))]
    /\ UNCHANGED <<adapterVars, scriptVars, fetchOptions>>

CallTextRejects(c) ==
    /\ frames[c].pc = "awaitText"
    /\ frames' = [frames EXCEPT
            ![c] = Settled(@, NetworkError,
                           OnFailure(variant, frames[c].reqOpts, NetworkError))]
    /\ UNCHANGED <<adapterVars, scriptVars, fetchOptions>>

ConcurrentInit ==
    /\ AdapterInit
    /\ ScriptIdle
    /\ fetchOptions = NoFetchOptions
    /\ frames = [c \in CallIds |-> NoFrame]

ConcurrentNext ==
    \/ \E c \in CallIds : \E opts \in ConcurrentDescriptors : CallInvoke(c, opts)
    \/ \E c \in CallIds : \E r \in ConcurrentResponses : CallFetchResolves(c, r)
    \/ \E c \in CallIds : CallFetchRejects(c)
    \/ \E c \in CallIds : CallTextResolves(c)
    \/ \E c \in CallIds : CallTextRejects(c)

ConcurrentSpec == ConcurrentInit /\ [][ConcurrentNext]_vars

(***************************************************************************)
(* One invocation with a descriptor that carries method, headers and body: *)
(* the synchronous part of makeAuthenticatedRequest, up to the call of     *)
(* fetch                                                                   *)
(***************************************************************************)
Methods == {Undefined, Str(""), Str("GET"), Str("POST"), Str("DELETE")}
Headers ==
    { Undefined,
      Obj([k \in {} |-> ""]),
      Obj([k \in {"Authorization"} |-> "Bearer dummy-token"]),
      Obj([k \in {ContentType, "x-goog-api-client"} |->
            IF k = ContentType THEN "text/plain" ELSE "gl-node"]),
      Obj([k \in {"content-type"} |-> "text/plain"]) }
Bodies ==
    { Undefined, Null, Obj("\"query\":\"SELECT 1\""), Str("{\"query\":\"SELECT 1\"}"),
      Str(""), Num(0) }
DispatchUris ==
    { <<Https, "bigquery", Googleapis, Slash, "bigquery", Slash, "v2", "?", "maxResults=1">>,
      <<Http, "127.0.0.1", ":9050">> }
DispatchDescriptors ==
    [uri : DispatchUris, callback : {"none", "returns"}, method : Methods,
     headers : Headers, body : Bodies]

Dispatch(opts) ==
    /\ apc = "ready"
    /\ pass = 0
    /\ Begin(opts)
    /\ UNCHANGED <<scriptVars, frames>>

DispatchInit == AdapterInit /\ ScriptIdle /\ MoreIdle
DispatchNext == \E opts \in DispatchDescriptors : Dispatch(opts)
DispatchSpec == DispatchInit /\ [][DispatchNext]_vars

(***************************************************************************)
(* Reading a URI: scheme, authority (host and port), path and query        *)
(***************************************************************************)
IsPort(tok) == tok = ":9050"
StartsTail(tok) == HasSlash(tok) \/ tok = "?"
\* index of the first token of the path or query, Len + 1 when there is none
TailStart(u) ==
    IF \E j \in 2..Len(u) : StartsTail(u[j])
    THEN CHOOSE j \in 2..Len(u) :
            /\ StartsTail(u[j])
            /\ \A l \in 2..(j-1) : ~StartsTail(u[l])
    ELSE Len(u) + 1
SchemeOf(u) == u[1]
AuthorityOf(u) == SubSeq(u, 2, TailStart(u) - 1)
TailOf(u) == SubSeq(u, TailStart(u), Len(u))
HostOf(u) == SelectSeq(AuthorityOf(u), LAMBDA tok : ~IsPort(tok))
\* scheme://<anything>.googleapis.com
IsCloudApiUri(u) ==
    /\ u # NoUri
    /\ Len(HostOf(u)) >= 2
    /\ HostOf(u)[Len(HostOf(u))] = Googleapis
LoopbackHosts == { <<"127.0.0.1">>, <<"localhost">> }
Invoked == apc \in {"awaitFetch", "awaitText", "settled"}

(***************************************************************************)
(* C1  A request whose original URI is scheme://<anything>.googleapis.com  *)
(* is dispatched to the emulator host with its path and query unchanged,   *)
(* and never to a googleapis.com host.                                     *)
(***************************************************************************)
C1_RewriteKeepsPathAndQuery ==
    (Invoked /\ IsCloudApiUri(origUri)) =>
        /\ Len(dispatched) = 1
        /\ AuthorityOf(dispatched[1]) = AuthorityOf(emulatorHost)
        /\ TailOf(dispatched[1]) = TailOf(origUri)
        /\ \A i \in 1..Len(AuthorityOf(dispatched[1])) :
                AuthorityOf(dispatched[1])[i] # Googleapis

Responded == apc = "settled" /\ failure = Undefined
\* the invocation has settled after fetch or response.text() rejected
Failed == apc = "settled" /\ failure # Undefined
HasCallback == reqOpts.callback # "none"
\* the result record for the response at hand, written out
ExpectedResult(body) ==
    [statusCode |-> response.status, body |-> body, headers |-> FromEntries(response.headers)]
ExpectedBody ==
    CASE response.text = JsonObjectText -> Obj("kind=bigquery#dataset")
      [] response.text = JsonNullText -> Null
      [] OTHER -> Str(response.text)
IsStatusError(e) ==
    /\ e.t = "error"
    /\ e.message = <<"Request failed with status", response.status>>
\* how many callback invocations got e as their first argument
TimesSignalled(e) == Cardinality({i \in 1..Len(cbLog) : cbLog[i][1] = e})

(***************************************************************************)
(* C3  With a completion callback and a response that is not 2xx, the      *)
(* callback is invoked with a non-null error (the status error) exactly    *)
(* once, and the promise is never rejected with that error: it resolves    *)
(* with the normalized result whenever the callback returns (a callback    *)
(* that throws rejects it with what the callback threw, which is another   *)
(* error).                                                                 *)
(***************************************************************************)
C3_StatusErrorSignalledOnce ==
    (Responded /\ HasCallback /\ ~Ok(response)) =>
        /\ Len(cbLog) >= 1
        /\ cbLog[1][1] # Null
        /\ IsStatusError(cbLog[1][1])
        /\ TimesSignalled(cbLog[1][1]) = 1
        /\ promise # Rejected(cbLog[1][1])
        /\ promise.state = "rejected" => ~IsStatusError(promise.value)
        /\ reqOpts.callback = "returns" => promise = Fulfilled(ExpectedResult(ExpectedBody))

\* a 409 response reached a callback that returned
C3_Witness ==
    /\ Responded
    /\ reqOpts.callback = "returns"
    /\ response.status = 409
    /\ Len(cbLog) = 1
    /\ cbLog[1][1].t = "error"
    /\ promise.state = "fulfilled"

(***************************************************************************)
(* C4  When the HTTP dispatch fails at the network level, the promise is   *)
(* rejected with that error and a completion callback (one that returns)   *)
(* is invoked with that error, in every copy of the adapter.               *)
(***************************************************************************)
C4_NetworkFailureReachesCallback ==
    (Failed /\ failure = NetworkError /\ reqOpts.callback # "throws") =>
        /\ promise = Rejected(failure)
        /\ HasCallback => (Len(cbLog) = 1 /\ cbLog[1][1] = failure)

Range(q) == {q[i] : i \in 1..Len(q)}
Exited == spc = "exited"
HoldsCredentials(e) == DOMAIN e \cap CredentialVars # {}
\* the errors of the run that no handler treated as success
Unrecovered == Range(errors) \ Range(recovered)
\* err is of the resource-already-exists category: it carries the conflict code
CarriesConflictCode(err) == err.code = Num(409)
MentionsAlready(err) == \E i \in 1..Len(err.message) : err.message[i] = "already"

(***************************************************************************)
(* C7  In every script the credential variables                            *)
(* (GOOGLE_APPLICATION_CREDENTIALS, GOOGLE_CLOUD_PROJECT, GCLOUD_PROJECT)  *)
(* are unset when a client is constructed and at every later point.        *)
(***************************************************************************)
C7_CredentialsClearedBeforeClient ==
    /\ \A i \in 1..Len(clients) : ~HoldsCredentials(clients[i])
    /\ clients # << >> => ~HoldsCredentials(env)

(***************************************************************************)
(* C8  (as claimed) In every example script an error of createDataset or   *)
(* createTable that carries the conflict code 409 is treated as success    *)
(* and the script goes on, and every error that does not carry the code    *)
(* is rethrown to the top-level handler, which exits with 1.               *)
(***************************************************************************)
C8_OnlyConflictCodeRecovered ==
    script \in FullExamples =>
        \A i \in 1..Len(errors) :
            IF errors[i].step \in {1, 2} /\ CarriesConflictCode(errors[i].err)
            THEN /\ errors[i] \in Range(recovered)
                 /\ Exited /\ exitCode = 1 => i < Len(errors)
            ELSE /\ errors[i] \notin Range(recovered)
                 /\ i = Len(errors)
                 /\ Exited
                 /\ exitCode = 1

(***************************************************************************)
(* C8  (amended) In every example script an error of createDataset or      *)
(* createTable that carries the conflict code 409 is logged and treated as *)
(* success, and the script goes on with a reference to the existing        *)
(* dataset or table.  In the two index scripts this is the only recovered  *)
(* category; the simplified script also recovers, at those two calls, any  *)
(* error whose message contains "already", whatever its code.  Every other *)
(* error is rethrown to the top-level handler, which exits with 1.         *)
(***************************************************************************)
C8_RecoveredErrors ==
    script \in FullExamples =>
        \A i \in 1..Len(errors) :
            IF /\ errors[i].step \in {1, 2}
               /\ \/ CarriesConflictCode(errors[i].err)
                  \/ script = SimpleIndex /\ MentionsAlready(errors[i].err)
            THEN /\ errors[i] \in Range(recovered)
                 /\ Exited /\ exitCode = 1 => i < Len(errors)
            ELSE /\ errors[i] \notin Range(recovered)
                 /\ i = Len(errors)
                 /\ Exited
                 /\ exitCode = 1

\* the simplified script got past an error without the conflict code at
\* createDataset and a conflict at createTable, and ended with 0
C8_Witness ==
    /\ script = SimpleIndex
    /\ Len(recovered) = 2
    /\ ~CarriesConflictCode(recovered[1].err)
    /\ CarriesConflictCode(recovered[2].err)
    /\ recovered[2].step = 2
    /\ Exited
    /\ exitCode = 0

C10_NoRetries ==
    /\ Len(dispatched) <= 1
    /\ \A i \in 1..Len(issued) : \A j \in 1..Len(issued) :
            i < j => issued[i].step < issued[j].step
    /\ \A i \in 1..Len(errors) : \A j \in 1..Len(issued) :
            issued[j].step = errors[i].step =>
                \A l \in (j+1)..Len(issued) : issued[l].step > errors[i].step
    /\ script \in Scripts => Len(issued) <= Len(Calls(script))

\* both attempts of the minimal test failed and no call was issued again
C10_Witness ==
    /\ script = Minimal
    /\ Exited
    /\ Len(errors) = 2
    /\ Len(issued) = 2

(***************************************************************************)
(* C11  Two calls in flight through one adapter instance, each with its    *)
(* own descriptor, are independent: in every interleaving the dispatched   *)
(* URI, the callback invocations and the promise of each call are what the *)
(* call produces alone from its descriptor and the answer of the network   *)
(* to it, a step of one call leaves the other call as it was, and the      *)
(* captured emulator base URL is never written.                            *)
(***************************************************************************)
C11_CallsAreIndependent ==
    /\ [](\A c \in DOMAIN frames :
            LET f == frames[c]
            IN  /\ f.pc # "ready" =>
                    f.dispatched = IF f.origUri # NoUri
                                   THEN <<RewriteUri(f.origUri, emulatorHost)>>
                                   ELSE << >>
                /\ (f.pc = "settled" /\ f.failure = Undefined) =>
                    [calls |-> f.cbLog, promise |-> f.promise]
                        = OnBody(variant, f.reqOpts, f.response)
                /\ (f.pc = "settled" /\ f.failure # Undefined) =>
                    [calls |-> f.cbLog, promise |-> f.promise]
                        = OnFailure(variant, f.reqOpts, f.failure))
    /\ [][/\ emulatorHost' = emulatorHost
          /\ \A c \in DOMAIN frames : \A d \in DOMAIN frames :
                (c # d /\ frames'[c] # frames[c]) => frames'[d] = frames[d]]_vars

\* the second call got its response and settled while the first, begun
\* earlier and answered with another response, was still reading its body;
\* then the first settled too
C11_Witness ==
    /\ DOMAIN frames = CallIds
    /\ frames[1].pc = "settled"
    /\ frames[2].pc = "settled"
    /\ frames[1].reqOpts.callback = "returns"
    /\ frames[2].reqOpts.callback = "returns"
    /\ frames[1].response.status = 409
    /\ frames[2].response.status = 200
    /\ frames[1].cbLog[1][1] # Null
    /\ frames[2].cbLog[1][1] = Null
    /\ frames[1].origUri # frames[2].origUri

(***************************************************************************)
(* C12  makeAuthenticatedRequest hands to fetch the descriptor's method    *)
(* (GET when none is given), headers that are the caller's headers merged  *)
(* over the default Content-Type application/json (a Content-Type of the   *)
(* caller wins), and the serialized body whenever the descriptor has a     *)
(* body (a body property that is not undefined or null), no body otherwise.*)
(***************************************************************************)
GivenMethod == Get(reqOpts, "method").t = "string" /\ Get(reqOpts, "method").v # ""
GivenHeaders == IF Get(reqOpts, "headers").t = "object" THEN Get(reqOpts, "headers").v
                ELSE [k \in {} |-> ""]
HasBody == Get(reqOpts, "body").t \notin {"undefined", "null"}
\* the JSON text of the body at hand, written out
ExpectedJson ==
    LET b == Get(reqOpts, "body")
    IN  CASE b.t = "object" -> Str(<<"{", b.v, "}">>)
          [] b.t = "string" -> Str(<<"\"", b.v, "\"">>)
          [] b.t = "number" -> Str(<<b.n>>)
          [] OTHER -> Undefined
C12_DispatchOptions ==
    Invoked =>
        /\ fetchOptions.method = IF GivenMethod THEN reqOpts.method.v ELSE "GET"
        /\ DOMAIN fetchOptions.headers = DOMAIN GivenHeaders \cup {ContentType}
        /\ \A k \in DOMAIN GivenHeaders : fetchOptions.headers[k] = GivenHeaders[k]
        /\ ContentType \notin DOMAIN GivenHeaders =>
                fetchOptions.headers[ContentType] = "application/json"
        /\ fetchOptions.body = IF HasBody THEN ExpectedJson ELSE Undefined

(***************************************************************************)
(* C13  In each full example script the calls are strictly sequential: at  *)
(* most one call is outstanding at any time and a call is issued only when *)
(* none is; the calls are issued in program order, each after the one      *)
(* before it succeeded or, for createDataset and createTable only, was     *)
(* recovered; and once a call fails without recovery no later call is      *)
(* issued.                                                                 *)
(***************************************************************************)
FailedAt(k) == \E i \in 1..Len(errors) : errors[i].step = k
RecoveredAt(k) == \E i \in 1..Len(recovered) : recovered[i].step = k
C13_StrictSequence ==
    /\ [](script \in FullExamples =>
            /\ \A j \in 1..Len(issued) :
                    /\ issued[j].step = j
                    /\ issued[j].call = Calls(script)[j]
            /\ outstanding # NoCall =>
                    /\ spc = "await"
                    /\ outstanding = issued[Len(issued)].call
            /\ \A j \in 2..Len(issued) :
                    FailedAt(j - 1) => (RecoveredAt(j - 1) /\ j - 1 \in {1, 2})
            /\ \A k \in 1..Len(Calls(script)) :
                    (FailedAt(k) /\ ~RecoveredAt(k)) => (Len(issued) = k /\ Exited))
    /\ [][(script \in FullExamples /\ issued' # issued) =>
                /\ outstanding = NoCall
                /\ Len(issued') = Len(issued) + 1]_vars

\* createDataset was recovered as a conflict, createTable succeeded, insert
\* failed: the queries were never issued
C13_Witness ==
    /\ script = EnvIndex
    /\ Exited
    /\ exitCode = 1
    /\ Len(issued) = 3
    /\ RecoveredAt(1)
    /\ ~FailedAt(2)
    /\ FailedAt(3)

(***************************************************************************)
(* C14  A connection test (testConnection) reports success and returns     *)
(* normally only when the test query returned at least one row; when the   *)
(* row set is empty or missing, or when createQueryJob or getQueryResults  *)
(* throws, it prints the failure message and the troubleshooting checklist *)
(* and then exits with code 1.                                             *)
(***************************************************************************)
Printed(line) == \E i \in 1..Len(console) : console[i] = line
AtLeastOneRow == rows.t = "array" /\ rows.length >= 1
C14_ConnectionTestVerdict ==
    script \in ConnectionTests =>
        /\ Printed("Connection successful!") => (AtLeastOneRow /\ errors = << >>)
        /\ (Exited /\ exitCode = 0) =>
                /\ AtLeastOneRow
                /\ errors = << >>
                /\ console = <<"Connection successful!">>
        /\ (Exited /\ (~AtLeastOneRow \/ errors # << >>)) =>
                /\ exitCode = 1
                /\ console = <<"Connection failed!", "Error:", "Troubleshooting tips:">>
        /\ errors # << >> => Exited
        /\ (step = 2 /\ spc = "issue") => ~Exited

\* the override connection test could not create the job: it printed the
\* checklist and exited with 1
C14_Witness ==
    /\ script = OverrideTest
    /\ Exited
    /\ exitCode = 1
    /\ Len(issued) = 1
    /\ Len(errors) = 1
    /\ Printed("Troubleshooting tips:")

(***************************************************************************)
(* C15  (as claimed) In every script of the environment-variable variant   *)
(* BIGQUERY_EMULATOR_HOST holds a non-empty value when the client is       *)
(* constructed; a value the caller supplied, in the process environment or *)
(* (for a variable the process environment does not hold) in .env, is kept *)
(* unchanged by every statement; and the default http://127.0.0.1:9050 is  *)
(* what the script sets when the caller supplied none.                     *)
(***************************************************************************)
EnvVariant == {EnvIndex, EnvTest, Minimal}
\* e holds a non-empty emulator host
Supplies(e) == BIGQUERY_EMULATOR_HOST \in DOMAIN e /\ e[BIGQUERY_EMULATOR_HOST] # ""
\* one step of a script keeps the claim
HostSetAndKeptStep ==
    script \in EnvVariant =>
        /\ clients' # clients => Supplies(env)
        /\ Supplies(env) =>
                (Supplies(env') /\ env'[BIGQUERY_EMULATOR_HOST] = env[BIGQUERY_EMULATOR_HOST])
        /\ (spc = "dotenv" /\ BIGQUERY_EMULATOR_HOST \notin DOMAIN env
                /\ Supplies(dotenvFile)) =>
                /\ Supplies(env')
                /\ env'[BIGQUERY_EMULATOR_HOST] = dotenvFile[BIGQUERY_EMULATOR_HOST]
        /\ spc = "host" =>
                /\ Supplies(env')
                /\ ~Supplies(env) => env'[BIGQUERY_EMULATOR_HOST] = "http://127.0.0.1:9050"
C15_HostSetAndKept == [][HostSetAndKeptStep]_vars

(***************************************************************************)
(* C15  (amended) In every script of the environment-variable variant      *)
(* BIGQUERY_EMULATOR_HOST holds a non-empty value when the client is       *)
(* constructed.  In the example and the connection test                    *)
(* (env-variable-example/index.ts and test.ts) a non-empty value supplied  *)
(* by the caller (the process environment, or .env for a variable the      *)
(* process environment does not hold) is kept unchanged, and the default   *)
(* http://127.0.0.1:9050 is used only when the caller supplied none or an  *)
(* empty one.  The minimal two-attempt test (testEmulator) sets            *)
(* http://localhost:9050 unconditionally, overwriting a value of the       *)
(* caller.                                                                 *)
(***************************************************************************)
\* one step of a script keeps the amended claim
HostConfiguredStep ==
    script \in EnvVariant =>
        /\ clients' # clients => Supplies(env)
        /\ script \in {EnvIndex, EnvTest} =>
                /\ Supplies(env) =>
                        /\ Supplies(env')
                        /\ env'[BIGQUERY_EMULATOR_HOST] = env[BIGQUERY_EMULATOR_HOST]
                /\ (spc = "dotenv" /\ BIGQUERY_EMULATOR_HOST \in DOMAIN env) =>
                        env'[BIGQUERY_EMULATOR_HOST] = env[BIGQUERY_EMULATOR_HOST]
                /\ (spc = "dotenv" /\ BIGQUERY_EMULATOR_HOST \notin DOMAIN env
                        /\ Supplies(dotenvFile)) =>
                        /\ Supplies(env')
                        /\ env'[BIGQUERY_EMULATOR_HOST] = dotenvFile[BIGQUERY_EMULATOR_HOST]
                /\ spc = "host" =>
                        /\ Supplies(env')
                        /\ ~Supplies(env) =>
                                env'[BIGQUERY_EMULATOR_HOST] = "http://127.0.0.1:9050"
        /\ (script = Minimal /\ spc = "host") =>
                /\ Supplies(env')
                /\ env'[BIGQUERY_EMULATOR_HOST] = "http://localhost:9050"
C15_HostConfigured == [][HostConfiguredStep]_vars

\* the connection test built its client with the host the caller's shell
\* supplied, although .env named another
C15_Witness ==
    /\ script = EnvTest
    /\ Len(clients) = 1
    /\ clients[1][BIGQUERY_EMULATOR_HOST] = "http://emulator:9050"
    /\ Supplies(dotenvFile)

(***************************************************************************)
(* C16  One invocation of makeAuthenticatedRequest with a descriptor that  *)
(* carries a completion callback invokes the callback at most once, for    *)
(* every outcome: 2xx response, response that is not 2xx, network failure, *)
(* and a callback that throws while it is invoked.                         *)
(***************************************************************************)
C16_CallbackAtMostOnce ==
    HasCallback => Len(cbLog) <= 1

(***************************************************************************)
(* C17  The two copies of the adapter are observationally equivalent: for  *)
(* the descriptor and the outcome of the HTTP dispatch at hand, the copy   *)
(* that ran and the other copy dispatch the same URI, invoke the callback  *)
(* the same number of times with the same arguments, and settle the        *)
(* promise the same way.                                                   *)
(***************************************************************************)
OtherCopy == IF variant = "index" THEN "test" ELSE "index"
C17_CopiesEquivalent ==
    /\ Invoked =>
            dispatched = IF origUri # NoUri THEN <<RewriteUri(origUri, emulatorHost)>>
                         ELSE << >>
    /\ Responded =>
            [calls |-> cbLog, promise |-> promise] = OnBody(OtherCopy, reqOpts, response)
    /\ Failed =>
            [calls |-> cbLog, promise |-> promise] = OnFailure(OtherCopy, reqOpts, failure)

(***************************************************************************)
(* C18  The URI rewrite is idempotent: the adapter writes the rewritten    *)
(* URI back into the caller's descriptor, and a descriptor passed through  *)
(* the adapter again is dispatched to the URI it was dispatched to before, *)
(* for every original URI.                                                 *)
(***************************************************************************)
C18_RewriteIdempotent ==
    (Invoked /\ pass >= 2) =>
        dispatched = IF origUri # NoUri THEN <<origUri>> ELSE << >>

(***************************************************************************)
(* C19  A request whose URI does not match the cloud-API hostname pattern  *)
(* and whose host is not a loopback address (127.0.0.1 or localhost        *)
(* exactly) is dispatched with its URI unchanged; in particular its scheme *)
(* is not downgraded when its host merely begins with a loopback spelling. *)
(***************************************************************************)
C19_OtherUrisUnchanged ==
    (Invoked /\ pass = 1 /\ origUri # NoUri /\ ~IsCloudApiUri(origUri)
        /\ HostOf(origUri) \notin LoopbackHosts) =>
        dispatched = <<origUri>>

====
